---- MODULE Spec2Model ----
(***************************************************************************)
(* Model of the upload receiver (src/upload-receiver/index.ts): the POST   *)
(* /upload handler, GET /uploads/:name, GET / with listUploadedFiles, the  *)
(* OPTIONS and fallback answers, the /events subscriber registry,          *)
(* broadcastChange and the debounced directory watcher; and of the two     *)
(* upload screens of the client app (src/upload-app).                      *)
(*                                                                         *)
(* Strings are sequences of one-character strings, so that trimming,       *)
(* character replacement, the timestamp prefix and path joining are        *)
(* computed as the code computes them.                                     *)
(***************************************************************************)
EXTENDS Integers, Sequences, FiniteSets, TLC

\* ------------------------------------------------------------------ bounds
MaxReq == 2
MaxConn == 2
MaxTicks == 2
MaxBurst == 2
StartClock == 9
MaxNameLen == 3
MaxAssets == 2
MaxPickers == 1
MaxUploads == 2

\* ------------------------------------------------------- program constants
DEBOUNCE_MS == 100

\* ----------------------------------------------------------------- strings
Lower == {"a","b","c","d","e","f","g","h","i","j","k","l","m",
          "n","o","p","q","r","s","t","u","v","w","x","y","z"}
Upper == {"A","B","C","D","E","F","G","H","I","J","K","L","M",
          "N","O","P","Q","R","S","T","U","V","W","X","Y","Z"}
Digits == {"0","1","2","3","4","5","6","7","8","9"}
DigitChars == <<"0","1","2","3","4","5","6","7","8","9">>
WhiteSpace == {" ", "\t", "\n", "\r"}

\* the character class [a-zA-Z0-9._-] of the sanitizer's replace
SanitizerClass == Lower \cup Upper \cup Digits \cup {".", "_", "-"}

\* the character class [A-Za-z0-9_.-] of the safe-name pattern
SafeNameClass == Lower \cup Upper \cup Digits \cup {"_", ".", "-"}

RECURSIVE TrimStart(_)
TrimStart(s) ==
  IF s # <<>> /\ Head(s) \in WhiteSpace THEN TrimStart(Tail(s)) ELSE s

RECURSIVE TrimEnd(_)
TrimEnd(s) ==
  IF s # <<>> /\ s[Len(s)] \in WhiteSpace
  THEN TrimEnd(SubSeq(s, 1, Len(s) - 1))
  ELSE s

\* String.prototype.trim
Trim(s) == TrimEnd(TrimStart(s))

\* an optional string: a string, or null/undefined
Some(s) == [present |-> TRUE, str |-> s]
Absent == [present |-> FALSE, str |-> <<>>]

FALLBACK == <<"u","p","l","o","a","d",".","b","i","n">>

\* mutant: nothing is replaced
ReplaceUnsafe_KeepsAll(s) == s

\* trimmed.replace(/[^a-zA-Z0-9._-]/g, "_")
ReplaceUnsafe(s) ==
  [i \in 1..Len(s) |-> IF s[i] \in SanitizerClass THEN s[i] ELSE "_"]

\* mutant: an empty result is returned as it is
sanitizeFileName_NoFallback(input) ==
  LET trimmed == IF input.present THEN Trim(input.str) ELSE FALLBACK
  IN ReplaceUnsafe(trimmed)

sanitizeFileName(input) ==
  LET trimmed == IF input.present THEN Trim(input.str) ELSE FALLBACK
      safe == ReplaceUnsafe(trimmed)
  IN IF Len(safe) > 0 THEN safe ELSE FALLBACK

\* /^[A-Za-z0-9_.-]+$/.test(name)
isSafeFilename(name) ==
  /\ Len(name) > 0
  /\ \A i \in 1..Len(name) : name[i] \in SafeNameClass

\* decimal rendering of a non-negative integer inside a template string
RECURSIVE DecStr(_)
DecStr(n) ==
  IF n < 10 THEN <<DigitChars[n + 1]>>
  ELSE DecStr(n \div 10) \o <<DigitChars[(n % 10) + 1]>>

\* mutant: the timestamp prefix is left out
SafeNameOf_NoStamp(millis, originalName) == sanitizeFileName(Some(originalName))

\* `${Date.now()}-${sanitizeFileName(originalName)}`
SafeNameOf(millis, originalName) ==
  DecStr(millis) \o <<"-">> \o sanitizeFileName(Some(originalName))

\* ----------------------------------------------------------------- headers
\* A header set is a function from header names to values.
NoHeaders == [n \in {} |-> ""]

CORS_HEADERS ==
  [n \in {"access-control-allow-origin", "access-control-allow-methods",
          "access-control-allow-headers"} |->
     CASE n = "access-control-allow-origin" -> "*"
       [] n = "access-control-allow-methods" -> "GET,POST,OPTIONS"
       [] n = "access-control-allow-headers" -> "content-type"]

\* mutant: the given headers are passed on as they are
withCors_Bare(headers) == headers

\* { ...CORS_HEADERS, ...headers }
withCors(headers) ==
  [n \in DOMAIN CORS_HEADERS \cup DOMAIN headers |->
     IF n \in DOMAIN headers THEN headers[n] ELSE CORS_HEADERS[n]]

ContentType(t) == [n \in {"content-type"} |-> t]

\* Response.json(body, init): the content type is added to init.headers
JsonHeaders(headers) ==
  [n \in DOMAIN headers \cup {"content-type"} |->
     IF n \in DOMAIN headers THEN headers[n]
     ELSE "application/json;charset=utf-8"]

\* the headers of the /events response
EVENT_STREAM_HEADERS ==
  [n \in {"content-type", "cache-control", "connection"} |->
     CASE n = "content-type" -> "text/event-stream"
       [] n = "cache-control" -> "no-cache"
       [] n = "connection" -> "keep-alive"]

\* Bun.serve is given no error handler: when fetch rejects, the runtime
\* answers 500 by itself, with headers the program has no hand in
RuntimeErrorHeaders == ContentType("text/plain")

\* ------------------------------------------------------------------- paths
\* A path is a sequence of segments; UPLOADS_DIR is absolute and normalised
\* (path.resolve).
UPLOADS_DIR == << <<"s","r","v">>, <<"u","p","l","o","a","d","s">> >>

\* the segments of a string between "/" separators
RECURSIVE SplitFrom(_, _, _)
SplitFrom(s, i, cur) ==
  IF i > Len(s) THEN <<cur>>
  ELSE IF s[i] = "/" THEN <<cur>> \o SplitFrom(s, i + 1, <<>>)
  ELSE SplitFrom(s, i + 1, Append(cur, s[i]))

Split(s) == SplitFrom(s, 1, <<>>)

\* path normalisation: empty and "." segments vanish, ".." removes the
\* segment before it (the root has no parent)
RECURSIVE NormalizeFrom(_, _, _)
NormalizeFrom(segs, i, acc) ==
  IF i > Len(segs) THEN acc
  ELSE IF segs[i] = <<>> \/ segs[i] = <<".">>
       THEN NormalizeFrom(segs, i + 1, acc)
  ELSE IF segs[i] = <<".", ".">>
       THEN NormalizeFrom(segs, i + 1,
                          IF acc = <<>> THEN acc
                          ELSE SubSeq(acc, 1, Len(acc) - 1))
  ELSE NormalizeFrom(segs, i + 1, Append(acc, segs[i]))

\* path.join(dir, name)
PathJoin(dir, name) == NormalizeFrom(dir \o Split(name), 1, <<>>)

IsPrefix(p, q) == Len(p) <= Len(q) /\ SubSeq(q, 1, Len(p)) = p

\* p denotes something strictly inside dir
StrictlyInside(p, dir) == IsPrefix(dir, p) /\ Len(p) > Len(dir)

\* ------------------------------------------------------------------- state
VARIABLES
  now,            \* Date.now(): the millisecond clock
  disk,           \* the entries of UPLOADS_DIR: name -> [bytes, mtimeMs, isFile]
  reqs,           \* the POST /upload requests and the locals of their handlers
                  \* (stamp, stamps: history of the Date.now() values read)
  conns,          \* the GET /events connections and the locals of their streams
                  \* (regSeq, regEntries: history of the broadcasts made and
                  \* the directory entries present when the stream started)
  subscribers,    \* the process-wide Set<Subscriber>
  watching,       \* whether fs.watch started (it may throw at startup)
  fsPending,      \* raw change events raised and not yet delivered to the callback
  timers,         \* pending setTimeout callbacks: [id, due]
  debounceTimer,  \* the handle in watchUploadsDirectory's debounceTimer (0: undefined)
  nBroadcast,     \* history: the number of broadcastChange() calls so far
  nTimerFired,    \* history: the number of debounce timer expiries so far
  getResp,        \* the response to the latest GET /uploads/:name
  home,           \* the GET / request and the locals of listUploadedFiles
  plainResp,      \* the latest response of a branch of fetch that awaits
                  \* nothing: OPTIONS and the fallback
  probe,          \* the latest application of a pure function
  screens         \* the client app: the state of each upload screen, its open
                  \* pickers and its uploadAsset calls in flight

vars == << now, disk, reqs, conns, subscribers, watching, fsPending, timers,
           debounceTimer, nBroadcast, nTimerFired, getResp, home, plainResp,
           probe, screens >>

Reqs == 1..MaxReq
Conns == 1..MaxConn

\* ------------------------------------------------------------- submissions
Abc == <<"a","b","c">>
Hello == <<"h","e","l","l","o">>

TextPart(f, v) == [kind |-> "text", field |-> f, value |-> v]
FilePart(f, n, b) == [kind |-> "file", field |-> f, name |-> n, bytes |-> b]

SeqsUpTo(S, n) == UNION { [1..k -> S] : k \in 0..n }

NoteHi == TextPart("note", "hi")
NoteYo == TextPart("note", "yo")
CtorHi == TextPart("constructor", "hi")
FileAbc == FilePart("file", <<"a">>, Abc)
FileHello == FilePart("file", <<"a">>, Hello)

\* the decoded multipart bodies a client may send: empty, text fields only
\* (one field name twice), a text field named like a member of every
\* object, two files of one client name with different bytes, and text and
\* file parts mixed in both orders
Submissions ==
  { <<>>, <<NoteHi, NoteYo>>, <<CtorHi>>, <<FileAbc, FileHello>>,
    <<NoteHi, FileAbc>>, <<FileHello, NoteYo>> }

\* the bodies sent while reads are under study: one file, of one client
\* name and either content
ReadSubmissions == { <<FileAbc>>, <<FileHello>> }

\* the body sent while the subscriber registry is under study
EventsSubmissions == { <<FileAbc>> }

\* the bodies sent while the watcher is under study: one without
\* a file and one with a file
WatchSubmissions == { <<>>, <<FileAbc>> }

\* --------------------------------------------------------------- the store
NoFile == [bytes |-> <<>>, mtimeMs |-> 0, isFile |-> FALSE]

\* mutant: a write to an existing file appends instead of replacing
WriteFile_Appending(d, name, bytes, t) ==
  [n \in DOMAIN d \cup {name} |->
     IF n = name
     THEN [bytes |-> (IF name \in DOMAIN d THEN d[name].bytes ELSE <<>>) \o bytes,
           mtimeMs |-> t, isFile |-> TRUE]
     ELSE d[n]]

\* Bun.write(path.join(UPLOADS_DIR, name), value), completed at time t
WriteFile(d, name, bytes, t) ==
  [n \in DOMAIN d \cup {name} |->
     IF n = name THEN [bytes |-> bytes, mtimeMs |-> t, isFile |-> TRUE]
     ELSE d[n]]

\* existsSync(p)
Exists(p) ==
  \/ IsPrefix(p, UPLOADS_DIR)
  \/ /\ Len(p) = Len(UPLOADS_DIR) + 1
     /\ IsPrefix(UPLOADS_DIR, p)
     /\ p[Len(p)] \in DOMAIN disk

\* ------------------------------------------------------- change notifier
\* subscriber(payload): controller.enqueue throws on a closed or failed stream
PushThrows(conn) == conn.closed \/ conn.broken

Push(conn, payload) ==
  IF PushThrows(conn) THEN conn
  ELSE [conn EXCEPT !.stream = Append(@, payload)]

\* mutant: the first push that throws ends the loop (subscribers are visited
\* in the order they were added, which is the order of the connections)
BroadcastTo_StopsAtFailure(cs, subs) ==
  [c \in Conns |->
     IF c \in subs /\ \A d \in subs : d <= c => ~PushThrows(cs[d])
     THEN Push(cs[c], "refresh") ELSE cs[c]]

\* broadcastChange(): every subscriber of the set is invoked with "refresh",
\* a throwing one is logged and skipped; the set is not touched
BroadcastTo(cs, subs) ==
  [c \in Conns |-> IF c \in subs THEN Push(cs[c], "refresh") ELSE cs[c]]

\* mutant: the catch block deletes the subscriber whose push threw
SubscribersAfterBroadcast_DropsFailed(cs, subs) ==
  { c \in subs : ~PushThrows(cs[c]) }

\* the subscriber set after broadcastChange(): the catch block only logs
SubscribersAfterBroadcast(cs, subs) == subs

\* ------------------------------------------------------- POST /upload
IdleReq ==
  [pc |-> "idle", formData |-> <<>>, idx |-> 0, storedFiles |-> <<>>,
   textFields |-> <<>>, originalName |-> <<>>, safeName |-> <<>>,
   stamp |-> 0, stamps |-> <<>>,
   responded |-> FALSE, status |-> 0, responseBody |-> <<>>,
   headers |-> NoHeaders, error |-> ""]

\* textFields is an object literal: a key it does not own is looked up in
\* Object.prototype, where these names are found
ObjectPrototypeKeys ==
  { "constructor", "toString", "toLocaleString", "valueOf", "hasOwnProperty",
    "isPrototypeOf", "propertyIsEnumerable", "__proto__" }

\* `if (!textFields[field])` finds an inherited value, which is truthy and
\* has no push method: textFields[field].push(value) throws TypeError.
\* (Such a field never becomes an own key, the first push of it throws.)
PushFieldThrows(tf, field) ==
  field \notin DOMAIN tf /\ field \in ObjectPrototypeKeys

\* mutant: a repeated field keeps its last value only
PushField_Overwrites(tf, field, value) ==
  [f \in DOMAIN tf \cup {field} |-> IF f = field THEN <<value>> ELSE tf[f]]

\* textFields[field].push(value), creating the array on first use
PushField(tf, field, value) ==
  [f \in DOMAIN tf \cup {field} |->
     IF f = field
     THEN (IF field \in DOMAIN tf THEN Append(tf[field], value) ELSE <<value>>)
     ELSE tf[f]]

\* the loop over formData.entries() from entry i on, up to the next file
\* entry (or the end, or a push that throws): string entries are pushed to
\* textFields
RECURSIVE SkipText(_, _, _)
SkipText(parts, i, tf) ==
  IF i <= Len(parts) /\ parts[i].kind = "text"
  THEN IF PushFieldThrows(tf, parts[i].field)
       THEN [idx |-> i, textFields |-> tf, threw |-> TRUE]
       ELSE SkipText(parts, i + 1, PushField(tf, parts[i].field, parts[i].value))
  ELSE [idx |-> i, textFields |-> tf, threw |-> FALSE]

\* mutant: the comparison admits the empty list
StatusOf_AdmitsEmpty(storedFiles) == IF Len(storedFiles) >= 0 THEN 200 ELSE 400

StatusOf(storedFiles) == IF Len(storedFiles) > 0 THEN 200 ELSE 400

\* mutant: the message does not depend on what was stored
MessageOf_AlwaysSaved(storedFiles) == "Files saved successfully."

MessageOf(storedFiles) ==
  IF Len(storedFiles) > 0 THEN "Files saved successfully."
  ELSE "No files detected in upload."

ResponseBodyOf(storedFiles, textFields) ==
  [ok |-> TRUE, message |-> MessageOf(storedFiles), files |-> storedFiles,
   fields |-> textFields, directory |-> UPLOADS_DIR]

\* value.name || "upload.bin"
OriginalNameOf(part) == IF part.name = <<>> THEN FALLBACK ELSE part.name

\* mutant: a handler that threw has answered with its result all the same
Threw_AnswersAnyway(rq, err) ==
  [rq EXCEPT !.pc = "threw", !.status = 500, !.headers = RuntimeErrorHeaders,
             !.error = err, !.responded = TRUE,
             !.responseBody = ResponseBodyOf(rq.storedFiles, rq.textFields)]

\* fetch rejected with err: the handler returned no response and the
\* runtime answers
Threw(rq, err) ==
  [rq EXCEPT !.pc = "threw", !.status = 500, !.headers = RuntimeErrorHeaders,
             !.error = err]

\* The handler runs from entry i until it awaits the next Bun.write, throws
\* or returns its response.
RunHandler(rq, i) ==
  LET sk == SkipText(rq.formData, i, rq.textFields) IN
  IF sk.threw
  THEN Threw([rq EXCEPT !.idx = sk.idx, !.textFields = sk.textFields],
             "TypeError")
  ELSE IF sk.idx <= Len(rq.formData)
  THEN LET originalName == OriginalNameOf(rq.formData[sk.idx]) IN
       [rq EXCEPT !.pc = "writing", !.idx = sk.idx,
                  !.textFields = sk.textFields,
                  !.originalName = originalName,
                  !.stamp = now,
                  !.safeName = SafeNameOf(now, originalName)]
  ELSE [rq EXCEPT !.pc = "done", !.idx = sk.idx,
                  !.textFields = sk.textFields,
                  !.responded = TRUE,
                  !.status = StatusOf(rq.storedFiles),
                  !.responseBody = ResponseBodyOf(rq.storedFiles, sk.textFields),
                  !.headers = JsonHeaders(withCors(NoHeaders))]

\* mutant: the handler leaves the broadcast to the watcher
HandlerBroadcasts_Never(rq) == FALSE

\* the handler calls broadcastChange() right before it returns its response
HandlerBroadcasts(rq) == rq.pc = "done"

\* what a step of the handler leaves behind in the notifier
AfterHandler(rq) ==
  /\ subscribers' = IF HandlerBroadcasts(rq) THEN SubscribersAfterBroadcast(conns, subscribers)
                    ELSE subscribers
  /\ conns' = IF HandlerBroadcasts(rq) THEN BroadcastTo(conns, subscribers)
              ELSE conns
  /\ nBroadcast' = IF HandlerBroadcasts(rq) THEN nBroadcast + 1 ELSE nBroadcast

\* a POST /upload request arrives: the handler awaits request.formData()
PostUpload(r, body) ==
  /\ reqs[r].pc = "idle"
  /\ \A q \in Reqs : q < r => reqs[q].pc # "idle"
  /\ reqs' = [reqs EXCEPT ![r] = [@ EXCEPT !.pc = "parsing", !.formData = body]]
  /\ UNCHANGED << screens, home, plainResp, now, disk, conns, subscribers, watching, fsPending, timers,
                  debounceTimer, nBroadcast, nTimerFired, getResp,
                  probe >>

\* request.formData() resolves
FormDataResolved(r) ==
  /\ reqs[r].pc = "parsing"
  /\ LET rq == RunHandler(reqs[r], 1) IN
       /\ reqs' = [reqs EXCEPT ![r] = rq]
       /\ AfterHandler(rq)
  /\ UNCHANGED << screens, home, plainResp, now, disk, watching, fsPending, timers,
                  debounceTimer, nTimerFired, getResp, probe >>

\* request.formData() rejects (the body is no form data): the handler throws
FormDataRejected(r) ==
  /\ reqs[r].pc = "parsing"
  /\ reqs' = [reqs EXCEPT ![r] = Threw([@ EXCEPT !.formData = <<>>], "formData")]
  /\ UNCHANGED << screens, home, plainResp, now, disk, conns, subscribers, watching, fsPending, timers,
                  debounceTimer, nBroadcast, nTimerFired, getResp,
                  probe >>

StoredEntry(rq) ==
  [field |-> rq.formData[rq.idx].field, savedAs |-> rq.safeName,
   originalName |-> rq.originalName, size |-> Len(rq.formData[rq.idx].bytes)]

\* await Bun.write(filePath, value) resolves: the file is on disk, the
\* directory watcher is handed `burst` raw change events, and the handler
\* goes on with the entries that follow
WriteResolved(r, burst) ==
  /\ reqs[r].pc = "writing"
  /\ disk' = WriteFile(disk, reqs[r].safeName,
                       reqs[r].formData[reqs[r].idx].bytes, now)
  /\ fsPending' = IF watching THEN fsPending + burst ELSE fsPending
  /\ LET pushed == [reqs[r] EXCEPT
                      !.storedFiles = Append(@, StoredEntry(reqs[r])),
                      !.stamps = Append(@, reqs[r].stamp)]
         rq == RunHandler(pushed, reqs[r].idx + 1)
     IN /\ reqs' = [reqs EXCEPT ![r] = rq]
        /\ AfterHandler(rq)
  /\ UNCHANGED << screens, home, plainResp, now, watching, timers, debounceTimer, nTimerFired, getResp, probe >>

\* await Bun.write(filePath, value) rejects: the handler throws
WriteRejected(r) ==
  /\ reqs[r].pc = "writing"
  /\ reqs' = [reqs EXCEPT ![r] = Threw(@, "write")]
  /\ UNCHANGED << screens, home, plainResp, now, disk, conns, subscribers, watching, fsPending, timers,
                  debounceTimer, nBroadcast, nTimerFired, getResp,
                  probe >>

\* ------------------------------------------------------- GET /events
ClosedConn ==
  [state |-> "none", subscriber |-> FALSE, closed |-> FALSE, broken |-> FALSE,
   aborted |-> FALSE, cancelled |-> FALSE, stream |-> <<>>, regSeq |-> 0,
   regEntries |-> 0, status |-> 0, headers |-> NoHeaders]

registerSubscriber(subs, c) == subs \cup {c}

\* mutant: the handler is not deleted from the set
unregisterSubscriber_Noop(subs, c) == subs

unregisterSubscriber(subs, c) == subs \ {c}

\* mutant: the subscriber is registered and "connected" is not enqueued
StartStream_NoConnected(conn) ==
  [conn EXCEPT !.state = "open", !.subscriber = TRUE, !.regSeq = nBroadcast,
               !.regEntries = Cardinality(DOMAIN disk)]

\* mutant: a stream that starts after a broadcast is sent a "refresh" for it
StartStream_Replays(conn) ==
  [conn EXCEPT !.state = "open", !.subscriber = TRUE,
               !.stream = IF nBroadcast > 0
                          THEN @ \o <<"connected", "refresh">>
                          ELSE Append(@, "connected"),
               !.regSeq = nBroadcast,
               !.regEntries = Cardinality(DOMAIN disk)]

\* start(controller): the closure is made and registered, then "connected"
\* is enqueued, in one synchronous run
StartStream(conn) ==
  [conn EXCEPT !.state = "open", !.subscriber = TRUE,
               !.stream = Append(@, "connected"), !.regSeq = nBroadcast,
               !.regEntries = Cardinality(DOMAIN disk)]

\* new Response(stream, { headers: withCors({...}) })
EventsResponse(conn) ==
  [conn EXCEPT !.status = 200, !.headers = withCors(EVENT_STREAM_HEADERS)]

EventsOpen(c) ==
  /\ conns[c].state = "none"
  /\ \A d \in Conns : d < c => conns[d].state # "none"
  /\ conns' = [conns EXCEPT ![c] = EventsResponse(StartStream(@))]
  /\ subscribers' = registerSubscriber(subscribers, c)
  /\ UNCHANGED << screens, home, plainResp, now, disk, reqs, watching, fsPending, timers, debounceTimer,
                  nBroadcast, nTimerFired, getResp, probe >>

\* mutant: a disconnect empties the subscriber set
DropSubscriber_ClearsAll(subs, conn, c) == {}

\* `if (subscriber) { unregisterSubscriber(subscriber); subscriber = null; }`
DropSubscriber(subs, conn, c) ==
  IF conn.subscriber THEN unregisterSubscriber(subs, c) ELSE subs

\* the "abort" listener of request.signal: the client went away
EventsAbort(c) ==
  /\ conns[c].state = "open"
  /\ ~conns[c].aborted
  /\ subscribers' = DropSubscriber(subscribers, conns[c], c)
  /\ conns' = [conns EXCEPT ![c] = [@ EXCEPT !.subscriber = FALSE,
                                             !.closed = TRUE,
                                             !.aborted = TRUE]]
  /\ UNCHANGED << screens, home, plainResp, now, disk, reqs, watching, fsPending, timers, debounceTimer,
                  nBroadcast, nTimerFired, getResp, probe >>

\* cancel(): the consumer of the stream cancelled it
EventsCancel(c) ==
  /\ conns[c].state = "open"
  /\ ~conns[c].cancelled
  /\ subscribers' = DropSubscriber(subscribers, conns[c], c)
  /\ conns' = [conns EXCEPT ![c] = [@ EXCEPT !.subscriber = FALSE,
                                             !.cancelled = TRUE]]
  /\ UNCHANGED << screens, home, plainResp, now, disk, reqs, watching, fsPending, timers, debounceTimer,
                  nBroadcast, nTimerFired, getResp, probe >>

\* the stream stops accepting chunks (its controller errored) while the
\* connection has been neither aborted nor cancelled
StreamFails(c) ==
  /\ conns[c].state = "open"
  /\ ~conns[c].broken /\ ~conns[c].closed
  /\ ~conns[c].aborted /\ ~conns[c].cancelled
  /\ conns' = [conns EXCEPT ![c] = [@ EXCEPT !.broken = TRUE]]
  /\ UNCHANGED << screens, home, plainResp, now, disk, reqs, subscribers, watching, fsPending, timers,
                  debounceTimer, nBroadcast, nTimerFired, getResp,
                  probe >>

\* --------------------------------------------------- watchUploadsDirectory
\* mutant: the pending timer is not cleared
ClearTimeout_Noop(ts, handle) == ts

\* clearTimeout(handle)
ClearTimeout(ts, handle) == { t \in ts : t.id # handle }

\* setTimeout(callback, DEBOUNCE_MS) at time t
SetTimeout(ts, handle, t) == ts \cup { [id |-> handle, due |-> t + DEBOUNCE_MS] }

\* setTimeout returns a handle that no pending timer has and that differs
\* from the one the watcher still holds
FreshHandle ==
  CHOOSE h \in 1..(Cardinality(timers) + 2) :
    /\ h # debounceTimer
    /\ \A t \in timers : t.id # h
    /\ \A k \in 1..(h - 1) : k = debounceTimer \/ \E t \in timers : t.id = k

\* the fs.watch callback runs for one raw change event
WatchEvent ==
  /\ fsPending > 0
  /\ fsPending' = fsPending - 1
  /\ timers' = SetTimeout(ClearTimeout(timers, debounceTimer), FreshHandle, now)
  /\ debounceTimer' = FreshHandle
  /\ UNCHANGED << screens, home, plainResp, now, disk, reqs, conns, subscribers, watching, nBroadcast,
                  nTimerFired, getResp, probe >>

\* a pending debounce timer expires: its callback broadcasts
TimerFired(t) ==
  /\ t \in timers
  /\ now >= t.due
  /\ timers' = timers \ {t}
  /\ conns' = BroadcastTo(conns, subscribers)
  /\ subscribers' = SubscribersAfterBroadcast(conns, subscribers)
  /\ nBroadcast' = nBroadcast + 1
  /\ nTimerFired' = nTimerFired + 1
  /\ UNCHANGED << screens, home, plainResp, now, disk, reqs, watching, fsPending, debounceTimer,
                  getResp, probe >>

\* ------------------------------------------------------------- the clock
TicksUsed ==
  ((now - StartClock) % DEBOUNCE_MS) + ((now - StartClock) \div DEBOUNCE_MS)

\* time passes: a millisecond, or a whole debounce period
Tick(d) ==
  /\ TicksUsed < MaxTicks
  /\ now' = now + d
  /\ UNCHANGED << screens, home, plainResp, disk, reqs, conns, subscribers, watching, fsPending, timers,
                  debounceTimer, nBroadcast, nTimerFired, getResp,
                  probe >>

\* ------------------------------------------------------ GET /uploads/:name
NoResp ==
  [status |-> 0, name |-> <<>>, text |-> "", bytes |-> <<>>,
   joined |-> FALSE, filePath |-> <<>>, headers |-> NoHeaders]

\* file.type || "application/octet-stream": the stored names of the model
\* have no extension the runtime knows
FileHeaders == ContentType("application/octet-stream")

\* mutant: the name is joined and looked up without the pattern check
UploadResponse_NoPatternCheck(name) ==
  LET filePath == PathJoin(UPLOADS_DIR, name) IN
  IF ~Exists(filePath)
  THEN [status |-> 404, name |-> name, text |-> "Not found",
        bytes |-> <<>>, joined |-> TRUE, filePath |-> filePath,
        headers |-> withCors(NoHeaders)]
  ELSE [status |-> 200, name |-> name, text |-> "",
        bytes |-> IF filePath[Len(filePath)] \in DOMAIN disk
                  THEN disk[filePath[Len(filePath)]].bytes ELSE <<>>,
        joined |-> TRUE, filePath |-> filePath,
        headers |-> withCors(FileHeaders)]

\* the handler of GET /uploads/:name for the decoded name
UploadResponse(name) ==
  IF ~isSafeFilename(name)
  THEN [status |-> 400, name |-> name, text |-> "Invalid filename",
        bytes |-> <<>>, joined |-> FALSE, filePath |-> <<>>,
        headers |-> withCors(NoHeaders)]
  ELSE LET filePath == PathJoin(UPLOADS_DIR, name) IN
       IF ~Exists(filePath)
       THEN [status |-> 404, name |-> name, text |-> "Not found",
             bytes |-> <<>>, joined |-> TRUE, filePath |-> filePath,
             headers |-> withCors(NoHeaders)]
       ELSE [status |-> 200, name |-> name, text |-> "",
             bytes |-> disk[filePath[Len(filePath)]].bytes,
             joined |-> TRUE, filePath |-> filePath,
             headers |-> withCors(FileHeaders)]

HexDigits == Digits \cup {"a","b","c","d","e","f","A","B","C","D","E","F"}

\* decodeURIComponent(raw) succeeds: every "%" starts an escape of two
\* hexadecimal digits
Decodable(raw) ==
  \A i \in 1..Len(raw) :
    raw[i] = "%" =>
      /\ i + 2 <= Len(raw)
      /\ raw[i + 1] \in HexDigits
      /\ raw[i + 2] \in HexDigits

\* path components with a broken escape
MalformedNames == { <<"%">>, <<"%", "G", "1">> }

\* GET /uploads/<raw>: decodeURIComponent throws URIError and fetch rejects
GetUploadUndecodable(raw) ==
  /\ ~Decodable(raw)
  /\ getResp' = [NoResp EXCEPT !.status = 500, !.name = raw,
                               !.headers = RuntimeErrorHeaders]
  /\ getResp' # getResp
  /\ UNCHANGED << screens, home, plainResp, now, disk, reqs, conns, subscribers,
                  watching, fsPending, timers, debounceTimer, nBroadcast,
                  nTimerFired, probe >>

\* names that are on no disk: a traversal, a missing file, the empty name
OtherNames == { <<".",".","/","a">>, <<"z">>, <<>> }

\* new URL(request.url) removes "." and ".." segments from the path, also
\* percent-encoded ones, so the decoded name is never one of them
DecodedNames ==
  (DOMAIN disk \cup OtherNames) \ { <<".">>, <<".",".">> }

GetUpload(name) ==
  /\ getResp' = UploadResponse(name)
  /\ getResp' # getResp
  /\ UNCHANGED << screens, home, plainResp, now, disk, reqs, conns, subscribers, watching, fsPending,
                  timers, debounceTimer, nBroadcast, nTimerFired,
                  probe >>

\* ------------------------------------------------------------------ GET /
\* the sequences that hold every element of S once
RECURSIVE Orderings(_)
Orderings(S) ==
  IF S = {} THEN { <<>> }
  ELSE UNION { { <<x>> \o rest : rest \in Orderings(S \ {x}) } : x \in S }

\* readdir(UPLOADS_DIR, { withFileTypes: true }): the entries of the
\* directory, in an order the file system chooses
Dirent(d, n) == [name |-> n, isFile |-> d[n].isFile]

\* the entries of a readdir result, whatever their order
EntrySet(entries) == { entries[i] : i \in 1..Len(entries) }

ReaddirResults(d) ==
  { [i \in 1..Len(o) |-> Dirent(d, o[i])] : o \in Orderings(DOMAIN d) }

\* mutant: the name of a regular file is not tested
KeepEntry_AnyName(entry) == entry.isFile

\* the filter: entry.isFile() && isSafeFilename(entry.name)
KeepEntry(entry) == entry.isFile /\ isSafeFilename(entry.name)

\* formatBytes(bytes) below 1024 bytes
formatBytes(bytes) == DecStr(bytes) \o <<" ", "B">>

\* stat(path.join(UPLOADS_DIR, entry.name)) and the record made of it (the
\* locale-dependent timestamp label is left out)
Detail(d, entry) ==
  [name |-> entry.name, sizeLabel |-> formatBytes(Len(d[entry.name].bytes)),
   mtimeMs |-> d[entry.name].mtimeMs]

\* the comparator (a, b) => b.mtimeMs - a.mtimeMs
CompareMtime(a, b) == b.mtimeMs - a.mtimeMs

\* Array.prototype.sort is stable: x goes behind every element that the
\* comparator does not put after it
RECURSIVE InsertSorted(_, _)
InsertSorted(sorted, x) ==
  IF sorted = <<>> THEN <<x>>
  ELSE IF CompareMtime(x, Head(sorted)) < 0 THEN <<x>> \o sorted
  ELSE <<Head(sorted)>> \o InsertSorted(Tail(sorted), x)

RECURSIVE SortFrom(_, _, _)
SortFrom(details, i, sorted) ==
  IF i > Len(details) THEN sorted
  ELSE SortFrom(details, i + 1, InsertSorted(sorted, details[i]))

\* details.sort((a, b) => b.mtimeMs - a.mtimeMs)
SortDetails(details) == SortFrom(details, 1, <<>>)

\* mutant: the catch block returns the names found so far
ListOnFailure_KeepsFiles(files) ==
  [i \in 1..Len(files) |->
     [name |-> files[i].name, sizeLabel |-> <<>>, mtimeMs |-> 0]]

\* the catch block of listUploadedFiles: the error is logged, [] returned
ListOnFailure(files) == <<>>

\* the characters encodeURIComponent leaves as they are
Unreserved ==
  Lower \cup Upper \cup Digits \cup {"-", "_", ".", "!", "~", "*", "'", "(", ")"}

EncodeChar(c) ==
  IF c \in Unreserved THEN <<c>>
  ELSE IF c = " " THEN <<"%", "2", "0">>
  ELSE IF c = "/" THEN <<"%", "2", "F">>
  ELSE <<"%", "?", "?">>  \* an escape: no other character is in a name here

RECURSIVE encodeURIComponent(_)
encodeURIComponent(str) ==
  IF str = <<>> THEN <<>>
  ELSE EncodeChar(Head(str)) \o encodeURIComponent(Tail(str))

EscapeChar(c) ==
  IF c = "&" THEN <<"&", "a", "m", "p", ";">>
  ELSE IF c = "<" THEN <<"&", "l", "t", ";">>
  ELSE IF c = ">" THEN <<"&", "g", "t", ";">>
  ELSE IF c = "\"" THEN <<"&", "q", "u", "o", "t", ";">>
  ELSE IF c = "'" THEN <<"&", "#", "3", "9", ";">>
  ELSE <<c>>

RECURSIVE escapeHtml(_)
escapeHtml(input) ==
  IF input = <<>> THEN <<>>
  ELSE EscapeChar(Head(input)) \o escapeHtml(Tail(input))

UPLOADS_PREFIX == <<"/", "u", "p", "l", "o", "a", "d", "s", "/">>

\* the list markup of renderHomePage: one item per file, with the escaped
\* name and the href of its two links, or the paragraph of the empty list
renderHomePage(files) ==
  [items |-> [i \in 1..Len(files) |->
                [label |-> escapeHtml(files[i].name),
                 href |-> UPLOADS_PREFIX \o encodeURIComponent(files[i].name)]],
   empty |-> Len(files) = 0]

NoPage == [items |-> <<>>, empty |-> FALSE]

IdleHome ==
  [pc |-> "idle", entries |-> {}, files |-> <<>>, list |-> <<>>,
   failed |-> "", page |-> NoPage, status |-> 0, headers |-> NoHeaders]

\* listUploadedFiles has returned: the page is rendered and sent
HomeResponse(h, list) ==
  [h EXCEPT !.pc = "done", !.list = list, !.page = renderHomePage(list),
            !.status = 200,
            !.headers = withCors(ContentType("text/html; charset=utf-8"))]

\* a GET / request arrives: listUploadedFiles awaits readdir
GetHome ==
  /\ home.pc = "idle"
  /\ home' = [home EXCEPT !.pc = "readdir"]
  /\ UNCHANGED << screens, plainResp, now, disk, reqs, conns, subscribers, watching,
                  fsPending, timers, debounceTimer, nBroadcast, nTimerFired,
                  getResp, probe >>

\* readdir resolves: the entries are filtered and a stat is started for
\* each one kept; with none kept, Promise.all resolves with no further I/O
ReaddirResolved(entries) ==
  /\ home.pc = "readdir"
  /\ LET files == SelectSeq(entries, KeepEntry)
         h == [home EXCEPT !.entries = EntrySet(entries), !.files = files]
     IN home' = IF files = <<>> THEN HomeResponse(h, SortDetails(<<>>))
                ELSE [h EXCEPT !.pc = "stat"]
  /\ UNCHANGED << screens, plainResp, now, disk, reqs, conns, subscribers, watching,
                  fsPending, timers, debounceTimer, nBroadcast, nTimerFired,
                  getResp, probe >>

\* readdir rejects: the catch block of listUploadedFiles
ReaddirRejected ==
  /\ home.pc = "readdir"
  /\ home' = HomeResponse([home EXCEPT !.failed = "readdir"],
                          ListOnFailure(home.files))
  /\ UNCHANGED << screens, plainResp, now, disk, reqs, conns, subscribers, watching,
                  fsPending, timers, debounceTimer, nBroadcast, nTimerFired,
                  getResp, probe >>

\* every stat resolves: the details are sorted and returned
StatResolved ==
  /\ home.pc = "stat"
  /\ \A i \in 1..Len(home.files) : home.files[i].name \in DOMAIN disk
  /\ LET details == [i \in 1..Len(home.files) |-> Detail(disk, home.files[i])]
     IN home' = HomeResponse(home, SortDetails(details))
  /\ UNCHANGED << screens, plainResp, now, disk, reqs, conns, subscribers, watching,
                  fsPending, timers, debounceTimer, nBroadcast, nTimerFired,
                  getResp, probe >>

\* a stat rejects: Promise.all rejects, the catch block of listUploadedFiles
StatRejected ==
  /\ home.pc = "stat"
  /\ home' = HomeResponse([home EXCEPT !.failed = "stat"],
                          ListOnFailure(home.files))
  /\ UNCHANGED << screens, plainResp, now, disk, reqs, conns, subscribers, watching,
                  fsPending, timers, debounceTimer, nBroadcast, nTimerFired,
                  getResp, probe >>

\* ------------------------------------------- OPTIONS and the fallback
ROOT_PATH == <<"/">>
EVENTS_PATH == <<"/", "e", "v", "e", "n", "t", "s">>
UPLOAD_PATH == <<"/", "u", "p", "l", "o", "a", "d">>

\* mutant: the OPTIONS test is missing
Route_NoOptions(method, pathname) ==
  IF method = "GET" /\ pathname = EVENTS_PATH THEN "events"
  ELSE IF method = "GET" /\ pathname = ROOT_PATH THEN "home"
  ELSE IF method = "GET" /\ IsPrefix(UPLOADS_PREFIX, pathname) THEN "uploads"
  ELSE IF method = "POST" /\ pathname = UPLOAD_PATH THEN "upload"
  ELSE "fallback"

\* the chain of tests of fetch, in its order
Route(method, pathname) ==
  IF method = "OPTIONS" THEN "options"
  ELSE IF method = "GET" /\ pathname = EVENTS_PATH THEN "events"
  ELSE IF method = "GET" /\ pathname = ROOT_PATH THEN "home"
  ELSE IF method = "GET" /\ IsPrefix(UPLOADS_PREFIX, pathname) THEN "uploads"
  ELSE IF method = "POST" /\ pathname = UPLOAD_PATH THEN "upload"
  ELSE "fallback"

Methods == { "GET", "POST", "OPTIONS", "DELETE" }

Pathnames ==
  { ROOT_PATH, EVENTS_PATH, UPLOAD_PATH, UPLOADS_PREFIX \o <<"a">>,
    <<"/", "x">> }

NoPlainResp ==
  [method |-> "", pathname |-> <<>>, status |-> 0, text |-> "",
   headers |-> NoHeaders]

\* new Response(null, { status: 204, headers: withCors() })
OptionsResponse(method, pathname) ==
  [method |-> method, pathname |-> pathname, status |-> 204, text |-> "",
   headers |-> withCors(NoHeaders)]

\* new Response("Not found", { status: 404, headers: withCors() })
FallbackResponse(method, pathname) ==
  [method |-> method, pathname |-> pathname, status |-> 404,
   text |-> "Not found", headers |-> withCors(NoHeaders)]

\* a request that fetch answers in its first test
FetchOptions(method, pathname) ==
  /\ Route(method, pathname) = "options"
  /\ plainResp' = OptionsResponse(method, pathname)
  /\ plainResp' # plainResp
  /\ UNCHANGED << screens, home, now, disk, reqs, conns, subscribers, watching,
                  fsPending, timers, debounceTimer, nBroadcast, nTimerFired,
                  getResp, probe >>

\* a request that no test of fetch matches
FetchFallback(method, pathname) ==
  /\ Route(method, pathname) = "fallback"
  /\ plainResp' = FallbackResponse(method, pathname)
  /\ plainResp' # plainResp
  /\ UNCHANGED << screens, home, now, disk, reqs, conns, subscribers, watching,
                  fsPending, timers, debounceTimer, nBroadcast, nTimerFired,
                  getResp, probe >>

\* ------------------------------------------------------------ pure probes
NameAlphabet == { "a", "Z", "7", ".", "-", "_", "/", " " }

AllNames == SeqsUpTo(NameAlphabet, MaxNameLen)

NoProbe == [fn |-> "none", input |-> Absent, safe |-> FALSE, filePath |-> <<>>,
            output |-> <<>>]

\* isSafeFilename(name) and, as the handler does next, path.join
ProbeSafeName(name) ==
  /\ probe = NoProbe
  /\ probe' = [fn |-> "isSafeFilename", input |-> Some(name),
               safe |-> isSafeFilename(name),
               filePath |-> PathJoin(UPLOADS_DIR, name), output |-> <<>>]
  /\ UNCHANGED << screens, home, plainResp, now, disk, reqs, conns, subscribers, watching, fsPending,
                  timers, debounceTimer, nBroadcast, nTimerFired,
                  getResp >>

\* sanitizeFileName(input)
ProbeSanitize(input) ==
  /\ probe = NoProbe
  /\ probe' = [fn |-> "sanitizeFileName", input |-> input,
               safe |-> isSafeFilename(sanitizeFileName(input)),
               filePath |-> <<>>, output |-> sanitizeFileName(input)]
  /\ UNCHANGED << screens, home, plainResp, now, disk, reqs, conns, subscribers, watching, fsPending,
                  timers, debounceTimer, nBroadcast, nTimerFired,
                  getResp >>

\* ------------------------------------------------- client upload screens
\* ImageUploadScreen (index.tsx) and FileUploadScreen (file-upload.tsx);
\* the tab navigator keeps both mounted, each with its own state
Screens == { "image", "file" }

\* the assets a picker may return; 0 is null (no asset)
Assets == 1..MaxAssets

\* useState(null), useState('idle'), useState('Select ... to begin.'); no
\* permission request, picker or upload is pending
IdleScreen ==
  [asset |-> 0, status |-> "idle", message |-> "begin", asking |-> 0,
   picking |-> 0, inFlight |-> 0]

\* pickImage awaits askForPermission() first, pickFile does not
AsksPermission(s) == s = "image"

\* disabled={!asset || status === 'uploading'}
UploadDisabled(sc) == sc.asset = 0 \/ sc.status = "uploading"

\* "Choose image" / "Choose file" pressed (the button is never disabled):
\* pickImage runs to its await of the permission request, pickFile to its
\* await of the document picker
PressChoose(s) ==
  /\ screens[s].asking + screens[s].picking < MaxPickers
  /\ screens' = [screens EXCEPT ![s] =
                   IF AsksPermission(s)
                   THEN [@ EXCEPT !.asking = @ + 1]
                   ELSE [@ EXCEPT !.picking = @ + 1]]
  /\ UNCHANGED << home, plainResp, now, disk, reqs, conns, subscribers,
                  watching, fsPending, timers, debounceTimer, nBroadcast,
                  nTimerFired, getResp, probe >>

\* askForPermission() resolves: pickImage returns when it was not granted
\* and goes on to await launchImageLibraryAsync when it was
PermissionAnswered(s, granted) ==
  /\ screens[s].asking > 0
  /\ screens' = [screens EXCEPT ![s] =
                   IF granted
                   THEN [@ EXCEPT !.asking = @ - 1, !.picking = @ + 1]
                   ELSE [@ EXCEPT !.asking = @ - 1]]
  /\ UNCHANGED << home, plainResp, now, disk, reqs, conns, subscribers,
                  watching, fsPending, timers, debounceTimer, nBroadcast,
                  nTimerFired, getResp, probe >>

\* the picker resolves, canceled (a = 0) or with the selected asset:
\* setAsset(selected); setStatus('ready'); setMessage('Ready to upload ...')
PickerResolved(s, a) ==
  /\ screens[s].picking > 0
  /\ screens' = [screens EXCEPT ![s] =
                   IF a = 0
                   THEN [@ EXCEPT !.picking = @ - 1]
                   ELSE [@ EXCEPT !.picking = @ - 1, !.asset = a,
                                  !.status = "ready", !.message = "ready"]]
  /\ UNCHANGED << home, plainResp, now, disk, reqs, conns, subscribers,
                  watching, fsPending, timers, debounceTimer, nBroadcast,
                  nTimerFired, getResp, probe >>

\* "Upload image" / "Upload file" pressed while the button is enabled:
\* uploadImage / uploadFile sets status 'uploading' and calls uploadAsset
PressUpload(s) ==
  /\ ~UploadDisabled(screens[s])
  /\ screens[s].asset # 0
  /\ screens[s].inFlight < MaxUploads
  /\ screens' = [screens EXCEPT ![s] =
                   [@ EXCEPT !.status = "uploading", !.message = "uploading",
                             !.inFlight = @ + 1]]
  /\ UNCHANGED << home, plainResp, now, disk, reqs, conns, subscribers,
                  watching, fsPending, timers, debounceTimer, nBroadcast,
                  nTimerFired, getResp, probe >>

\* an awaited uploadAsset call settles: it resolves when the response is
\* ok, and throws on a failed fetch or a response that is not ok, which
\* the catch block of the screen turns into status 'error'
UploadSettled(s, ok) ==
  /\ screens[s].inFlight > 0
  /\ screens' = [screens EXCEPT ![s] =
                   IF ok
                   THEN [@ EXCEPT !.inFlight = @ - 1, !.status = "success",
                                  !.message = "complete"]
                   ELSE [@ EXCEPT !.inFlight = @ - 1, !.status = "error",
                                  !.message = "failed"]]
  /\ UNCHANGED << home, plainResp, now, disk, reqs, conns, subscribers,
                  watching, fsPending, timers, debounceTimer, nBroadcast,
                  nTimerFired, getResp, probe >>

\* ---------------------------------------------------------- specifications
Init ==
  /\ now = StartClock
  /\ disk = [n \in {} |-> NoFile]
  /\ reqs = [r \in Reqs |-> IdleReq]
  /\ conns = [c \in Conns |-> ClosedConn]
  /\ subscribers = {}
  /\ watching \in BOOLEAN
  /\ fsPending = 0
  /\ timers = {}
  /\ debounceTimer = 0
  /\ nBroadcast = 0
  /\ nTimerFired = 0
  /\ getResp = NoResp
  /\ home = IdleHome
  /\ plainResp = NoPlainResp
  /\ probe = NoProbe
  /\ screens = [s \in Screens |-> IdleScreen]

\* The store: concurrent uploads and the clock.
NextStore ==
  \/ \E r \in Reqs, body \in Submissions : PostUpload(r, body)
  \/ \E r \in Reqs : FormDataResolved(r)
  \/ \E r \in Reqs : FormDataRejected(r)
  \/ \E r \in Reqs : WriteResolved(r, 1)
  \/ \E r \in Reqs : WriteRejected(r)
  \/ Tick(1)

\* fs.watch threw at startup: no watcher runs
InitUnwatched ==
  /\ now = StartClock
  /\ disk = [n \in {} |-> NoFile]
  /\ reqs = [r \in Reqs |-> IdleReq]
  /\ conns = [c \in Conns |-> ClosedConn]
  /\ subscribers = {}
  /\ watching = FALSE
  /\ fsPending = 0
  /\ timers = {}
  /\ debounceTimer = 0
  /\ nBroadcast = 0
  /\ nTimerFired = 0
  /\ getResp = NoResp
  /\ home = IdleHome
  /\ plainResp = NoPlainResp
  /\ probe = NoProbe
  /\ screens = [s \in Screens |-> IdleScreen]

SpecStore == InitUnwatched /\ [][NextStore]_vars

\* Reads: concurrent uploads of files, the clock and GET /uploads/:name.
NextRead ==
  \/ \E r \in Reqs, body \in ReadSubmissions : PostUpload(r, body)
  \/ \E r \in Reqs : FormDataResolved(r)
  \/ \E r \in Reqs : WriteResolved(r, 1)
  \/ Tick(1)
  \/ \E name \in DecodedNames : GetUpload(name)

SpecRead == InitUnwatched /\ [][NextRead]_vars

\* the request that uploads while the watcher is under study
Uploader == { r \in Reqs : \A q \in Reqs : r <= q }

\* The watcher: event streams that stay open, one upload, the raw change
\* events of its write, the debounce timer and the clock.
NextWatch ==
  \/ \E r \in Uploader, body \in WatchSubmissions : PostUpload(r, body)
  \/ \E r \in Uploader : FormDataResolved(r)
  \/ \E r \in Uploader, burst \in 1..MaxBurst : WriteResolved(r, burst)
  \/ \E c \in Conns : EventsOpen(c)
  \/ WatchEvent
  \/ \E t \in timers : TimerFired(t)
  \/ \E d \in {1, DEBOUNCE_MS} : Tick(d)

SpecWatch == Init /\ [][NextWatch]_vars

\* The subscriber registry: event streams that open, fail, are aborted and
\* cancelled, and the broadcasts of concurrent uploads.
NextEvents ==
  \/ \E r \in Reqs, body \in EventsSubmissions : PostUpload(r, body)
  \/ \E r \in Reqs : FormDataResolved(r)
  \/ \E r \in Reqs : WriteResolved(r, 1)
  \/ \E c \in Conns : EventsOpen(c)
  \/ \E c \in Conns : EventsAbort(c)
  \/ \E c \in Conns : EventsCancel(c)
  \/ \E c \in Conns : StreamFails(c)

SpecEvents == InitUnwatched /\ [][NextEvents]_vars

\* a store directory that holds entries before the server starts: a
\* subdirectory, a file whose name fails the pattern, and two files of one
\* modification time
SeededDisk ==
  [n \in { <<"d">>, <<"a", " ", "b">>, <<"p">>, <<"q">> } |->
     IF n = <<"d">> THEN [bytes |-> <<>>, mtimeMs |-> 7, isFile |-> FALSE]
     ELSE IF n = <<"a", " ", "b">>
          THEN [bytes |-> Abc, mtimeMs |-> 8, isFile |-> TRUE]
     ELSE [bytes |-> Hello, mtimeMs |-> 5, isFile |-> TRUE]]

\* the store directory exists already (line 34), empty or not
InitList ==
  /\ now = StartClock
  /\ disk \in { [n \in {} |-> NoFile], SeededDisk }
  /\ reqs = [r \in Reqs |-> IdleReq]
  /\ conns = [c \in Conns |-> ClosedConn]
  /\ subscribers = {}
  /\ watching = FALSE
  /\ fsPending = 0
  /\ timers = {}
  /\ debounceTimer = 0
  /\ nBroadcast = 0
  /\ nTimerFired = 0
  /\ getResp = NoResp
  /\ home = IdleHome
  /\ plainResp = NoPlainResp
  /\ probe = NoProbe
  /\ screens = [s \in Screens |-> IdleScreen]

\* The listing: one upload, the clock and GET /.
NextList ==
  \/ \E r \in Uploader, body \in EventsSubmissions : PostUpload(r, body)
  \/ \E r \in Uploader : FormDataResolved(r)
  \/ \E r \in Uploader : WriteResolved(r, 1)
  \/ Tick(1)
  \/ GetHome
  \/ \E entries \in ReaddirResults(disk) : ReaddirResolved(entries)
  \/ ReaddirRejected
  \/ StatResolved
  \/ StatRejected

SpecList == InitList /\ [][NextList]_vars

\* The HTTP surface: one request on every route, with the ways each can
\* fail.
NextHttp ==
  \/ \E r \in Uploader, body \in WatchSubmissions : PostUpload(r, body)
  \/ \E r \in Uploader : FormDataResolved(r)
  \/ \E r \in Uploader : FormDataRejected(r)
  \/ \E r \in Uploader : WriteResolved(r, 1)
  \/ \E r \in Uploader : WriteRejected(r)
  \/ \E c \in Conns : EventsOpen(c)
  \/ \E name \in DecodedNames : GetUpload(name)
  \/ \E raw \in MalformedNames : GetUploadUndecodable(raw)
  \/ GetHome
  \/ \E entries \in ReaddirResults(disk) : ReaddirResolved(entries)
  \/ ReaddirRejected
  \/ StatResolved
  \/ StatRejected
  \/ \E method \in Methods, pathname \in Pathnames : FetchOptions(method, pathname)
  \/ \E method \in Methods, pathname \in Pathnames : FetchFallback(method, pathname)

SpecHttp == InitUnwatched /\ [][NextHttp]_vars

\* the client app: presses of the two buttons of each screen, and the
\* permission requests, pickers and uploads they started settling
NextClient ==
  \/ \E s \in Screens : PressChoose(s)
  \/ \E s \in Screens, granted \in BOOLEAN : PermissionAnswered(s, granted)
  \/ \E s \in Screens, a \in {0} \cup Assets : PickerResolved(s, a)
  \/ \E s \in Screens : PressUpload(s)
  \/ \E s \in Screens, ok \in BOOLEAN : UploadSettled(s, ok)

SpecClient == InitUnwatched /\ [][NextClient]_vars

\* the pure functions applied to every short string
NextPure ==
  \/ \E name \in AllNames : ProbeSafeName(name)
  \/ \E name \in AllNames : ProbeSanitize(Some(name))
  \/ ProbeSanitize(Absent)

SpecPure == Init /\ [][NextPure]_vars

\* ================================================================== claims
\* ------------------------------------------------- helpers of the claims
\* the indices of the file parts of a submission, in submission order
FileIdxs(parts) == { i \in 1..Len(parts) : parts[i].kind = "file" }

IsFile(p) == p.kind = "file"
IsText(p) == p.kind = "text"

\* the file parts of a submission, in submission order
FilePartsOf(parts) == SelectSeq(parts, IsFile)

\* the names of the text fields of a submission
FieldNamesOf(parts) == { parts[i].field : i \in { j \in 1..Len(parts) : IsText(parts[j]) } }

\* the values submitted for text field f, in submission order
RECURSIVE ValuesOf(_, _)
ValuesOf(parts, f) ==
  IF parts = <<>> THEN <<>>
  ELSE IF IsText(Head(parts)) /\ Head(parts).field = f
       THEN <<Head(parts).value>> \o ValuesOf(Tail(parts), f)
       ELSE ValuesOf(Tail(parts), f)

\* the stored file parts so far, as (request, position in storedFiles)
StoredSlots ==
  UNION { { <<r, k>> : k \in 1..Len(reqs[r].storedFiles) } : r \in Reqs }

SlotEntry(s) == reqs[s[1]].storedFiles[s[2]]

\* the bytes submitted for the file part behind a stored entry
SlotBytes(s) == FilePartsOf(reqs[s[1]].formData)[s[2]].bytes

SlotStamp(s) == reqs[s[1]].stamps[s[2]]

\* ---------------------------------------------------------------------- C1
\* the submission of request r was parsed and its request has been answered,
\* by the handler or, when the handler threw, by the runtime
Answered(r) == reqs[r].status # 0 /\ reqs[r].error # "formData"

\* C1: every answered POST /upload submission got its answer from the
\* handler; the status is 200 exactly if at least one file part was stored;
\* a submission without file parts gets 400; and the fields of the response
\* are exactly the text fields of the submission with their values.
C1_StatusIffStored ==
  \A r \in Reqs :
    Answered(r) =>
      LET parts == reqs[r].formData IN
      /\ (reqs[r].status = 200) <=> (Len(reqs[r].storedFiles) > 0)
      /\ FileIdxs(parts) = {} => reqs[r].status = 400
      /\ reqs[r].responded
      /\ DOMAIN reqs[r].responseBody.fields = FieldNamesOf(parts)
      /\ \A f \in FieldNamesOf(parts) :
           reqs[r].responseBody.fields[f] = ValuesOf(parts, f)

\* ---------------------------------------------------------------------- C2
\* C2: every answer of GET /uploads/:name is 400 "Invalid filename", with
\* no path joined, if the decoded name fails the safe-name pattern;
\* otherwise 404 if the joined path does not exist; and 200 with the bytes
\* of the file only for a name that passes the pattern and exists.
C2_GetUploadOutcomes ==
  [][ getResp' # getResp =>
        LET g == getResp'
            p == PathJoin(UPLOADS_DIR, g.name)
        IN /\ g.status \in {200, 400, 404}
           /\ ~isSafeFilename(g.name) =>
                (g.status = 400 /\ g.text = "Invalid filename" /\ ~g.joined
                   /\ g.bytes = <<>>)
           /\ (isSafeFilename(g.name) /\ ~Exists(p)) =>
                (g.status = 404 /\ g.bytes = <<>>)
           /\ g.status = 200 =>
                (isSafeFilename(g.name) /\ Exists(p) /\ g.name \in DOMAIN disk
                   /\ g.bytes = disk[g.name].bytes)
    ]_vars

\* the traversal name was requested and refused
C2_Witness ==
  /\ getResp.name = <<".", ".", "/", "a">>
  /\ getResp.status = 400
  /\ DOMAIN disk # {}

\* ---------------------------------------------------------------------- C3
\* C3: every name the safe-name pattern accepts joins to a path strictly
\* inside the store directory.
C3_SafeNamesStayInside ==
  (probe.fn = "isSafeFilename" /\ probe.safe) =>
    StrictlyInside(probe.filePath, UPLOADS_DIR)

\* ---------------------------------------------------------------------- C4
\* C4 as stated: for every file entry of a 200 response, GET
\* /uploads/<savedAs> passes the safe-name check and returns exactly the
\* bytes submitted for that file part.
C4_RoundTripAlways ==
  \A s \in StoredSlots :
    (reqs[s[1]].responded /\ reqs[s[1]].status = 200) =>
      LET g == UploadResponse(SlotEntry(s).savedAs)
      IN g.status = 200 /\ g.bytes = SlotBytes(s)

\* C4 as amended: GET /uploads/<savedAs> passes the safe-name check and
\* returns the bytes of a file part stored under that on-disk name; they
\* are the bytes submitted for the entry's own part whenever no other
\* stored part has the same on-disk name.
C4_RoundTripUnlessOverwritten ==
  \A s \in StoredSlots :
    (reqs[s[1]].responded /\ reqs[s[1]].status = 200) =>
      LET g == UploadResponse(SlotEntry(s).savedAs)
          same == { o \in StoredSlots : SlotEntry(o).savedAs = SlotEntry(s).savedAs }
      IN /\ isSafeFilename(SlotEntry(s).savedAs)
         /\ g.status = 200
         /\ \E o \in same : g.bytes = SlotBytes(o)
         /\ same = {s} => g.bytes = SlotBytes(s)

\* a stored file was fetched and came back with the bytes submitted
C4_Witness ==
  \E s \in StoredSlots :
    /\ reqs[s[1]].responded /\ reqs[s[1]].status = 200
    /\ getResp.status = 200
    /\ getResp.name = SlotEntry(s).savedAs
    /\ getResp.bytes = SlotBytes(s)
    /\ getResp.bytes = Hello

\* ---------------------------------------------------------------------- C5
\* C5 as stated: any two stored file parts with identical client filenames
\* have distinct on-disk names, and no two handlers write the same path at
\* the same time.
C5_DistinctNamesAlways ==
  /\ \A s, o \in StoredSlots :
       (s # o /\ SlotEntry(s).originalName = SlotEntry(o).originalName) =>
         SlotEntry(s).savedAs # SlotEntry(o).savedAs
  /\ \A r, q \in Reqs :
       (r # q /\ reqs[r].pc = "writing" /\ reqs[q].pc = "writing") =>
         reqs[r].safeName # reqs[q].safeName

\* C5 as amended: two stored file parts whose names were made at different
\* millisecond clock readings have distinct on-disk names; two parts with
\* identical client filenames whose names were made in the same millisecond
\* have the same on-disk name.
C5_DistinctAcrossMillis ==
  \A s, o \in StoredSlots :
    /\ SlotStamp(s) # SlotStamp(o) => SlotEntry(s).savedAs # SlotEntry(o).savedAs
    /\ (SlotStamp(s) = SlotStamp(o)
          /\ SlotEntry(s).originalName = SlotEntry(o).originalName) =>
         SlotEntry(s).savedAs = SlotEntry(o).savedAs

\* two parts of one client filename were stored in different milliseconds,
\* one of them with a two-digit timestamp
C5_Witness ==
  \E s, o \in StoredSlots :
    /\ SlotEntry(s).originalName = SlotEntry(o).originalName
    /\ SlotStamp(s) < SlotStamp(o)
    /\ Len(SlotEntry(s).savedAs) < Len(SlotEntry(o).savedAs)

\* ------------------------------------------- helpers of the notifier claims
\* the number of "refresh" messages pushed on the stream of connection c
Refreshes(c) ==
  Cardinality({ i \in 1..Len(conns[c].stream) : conns[c].stream[i] = "refresh" })

\* c has been subscribed since before the first broadcast, and its stream
\* has accepted every push
Listening(c) ==
  /\ c \in subscribers
  /\ ~PushThrows(conns[c])
  /\ conns[c].regSeq = 0

\* exactly one upload has happened, it stored a file and was answered, and
\* the watcher has nothing left to deliver or to fire
OneUploadSettled ==
  \E r \in Reqs :
    /\ reqs[r].responded /\ Len(reqs[r].storedFiles) = 1
    /\ \A q \in Reqs \ {r} : reqs[q].pc = "idle"
    /\ fsPending = 0 /\ timers = {}

RefreshRun(n) == [i \in 1..n |-> "refresh"]

\* ---------------------------------------------------------------------- C6
\* C6 as stated: once one upload that stored a file has settled, each
\* subscriber that was listening throughout has received exactly one
\* "refresh" after its "connected".
C6_ExactlyOneRefresh ==
  OneUploadSettled =>
    \A c \in Conns : Listening(c) => conns[c].stream = <<"connected", "refresh">>

\* C6 as amended: each such subscriber has received, after "connected", one
\* "refresh" from the handler's own broadcast and one more per expiry of
\* the watcher's debounce timer: at least two when the watcher runs, one
\* when it does not.
C6_HandlerPlusWatcherRefresh ==
  OneUploadSettled =>
    /\ watching => nTimerFired >= 1
    /\ ~watching => nTimerFired = 0
    /\ \A c \in Conns :
         Listening(c) =>
           conns[c].stream = <<"connected">> \o RefreshRun(1 + nTimerFired)

\* two subscribers listened to one upload whose change events made one burst
C6_Witness ==
  /\ OneUploadSettled
  /\ watching /\ nTimerFired = 1
  /\ \E c, d \in Conns : c # d /\ Listening(c) /\ Listening(d)
                           /\ Refreshes(c) = 2 /\ Refreshes(d) = 2

\* ---------------------------------------------------------------------- C7
\* C7: the subscriber of a connection that was aborted or cancelled is not
\* in the subscriber set, and the set holds only subscribers of opened
\* connections.
C7_DisconnectedNotSubscribed ==
  /\ \A c \in Conns :
       (conns[c].aborted \/ conns[c].cancelled) =>
         (c \notin subscribers /\ ~conns[c].subscriber)
  /\ \A c \in subscribers : conns[c].state = "open"

\* one connection was aborted after it had received a refresh, another was
\* cancelled
C7_Witness ==
  \E c, d \in Conns :
    /\ c # d
    /\ conns[c].aborted /\ ~conns[c].cancelled /\ Refreshes(c) >= 1
    /\ conns[d].cancelled /\ ~conns[d].aborted

\* ---------------------------------------------------------------------- C8
\* C8 as stated: a subscriber whose push throws during a broadcast is no
\* longer in the subscriber set after that broadcast.
C8_UnregisteredOnPushFailure ==
  [][ \A c \in Conns :
        (nBroadcast' > nBroadcast /\ c \in subscribers /\ PushThrows(conns[c]))
          => c \notin subscribers'
    ]_vars

\* C8 as amended: a broadcast leaves the subscriber set as it was, also
\* when a push throws; a subscriber leaves the set only in the abort or the
\* cancel of its own connection.
C8_PushFailureLeavesRegistered ==
  [][ /\ nBroadcast' > nBroadcast => subscribers' = subscribers
      /\ \A c \in Conns :
           (c \in subscribers /\ c \notin subscribers') =>
             \/ (conns'[c].aborted /\ ~conns[c].aborted)
             \/ (conns'[c].cancelled /\ ~conns[c].cancelled)
    ]_vars

\* a registered subscriber has missed a refresh because its push threw
C8_Witness ==
  \E c \in subscribers :
    /\ conns[c].broken
    /\ Refreshes(c) < nBroadcast - conns[c].regSeq

\* ---------------------------------------------------------------------- C9
\* C9: on every event stream the first message is "connected" and every
\* later one is "refresh"; a connection that is subscribed has its
\* "connected" on the stream already.
C9_ConnectedFirst ==
  \A c \in Conns :
    /\ conns[c].state = "none" => conns[c].stream = <<>>
    /\ conns[c].state = "open" =>
         /\ Len(conns[c].stream) >= 1
         /\ conns[c].stream[1] = "connected"
         /\ \A i \in 2..Len(conns[c].stream) : conns[c].stream[i] = "refresh"
    /\ c \in subscribers => conns[c].state = "open"

\* a connection opened after one broadcast has received a later one
C9_Witness ==
  \E c \in Conns :
    /\ conns[c].regSeq >= 1
    /\ conns[c].stream = <<"connected", "refresh">>

\* --------------------------------------------------------------------- C10
\* C10: at most one debounce timer is pending, the one the watcher holds;
\* every raw change event replaces it by one due a full debounce period
\* later and broadcasts nothing; a timer fires only once that period has
\* passed, and its expiry makes exactly one broadcast and leaves no timer.
C10_Debounce ==
  /\ [](/\ Cardinality(timers) <= 1
        /\ \A t \in timers : t.id = debounceTimer /\ t.due <= now + DEBOUNCE_MS)
  /\ [][ /\ fsPending' < fsPending =>
              /\ timers' = { [id |-> debounceTimer', due |-> now + DEBOUNCE_MS] }
              /\ nBroadcast' = nBroadcast
         /\ nTimerFired' # nTimerFired =>
              /\ \E t \in timers : timers = {t} /\ now >= t.due
              /\ timers' = {}
              /\ nTimerFired' = nTimerFired + 1
              /\ nBroadcast' = nBroadcast + 1
       ]_vars

\* a burst of two change events, the second of which reset the pending
\* timer, has led to a single expiry
C10_Witness ==
  /\ debounceTimer = 2
  /\ nTimerFired = 1
  /\ timers = {} /\ fsPending = 0
  /\ \E n \in DOMAIN disk : disk[n].mtimeMs + DEBOUNCE_MS < now

\* --------------------------------------------------------------------- C11
\* C11: the step in which the POST /upload handler answers a submission
\* makes a broadcast exactly if the submission stored at least one file; a
\* submission that stored no file pushes nothing onto any event stream.
C11_BroadcastIffStored ==
  [][ \A r \in Reqs :
        (reqs[r].pc # "done" /\ reqs'[r].pc = "done") =>
          /\ (nBroadcast' = nBroadcast + 1) <=> (Len(reqs'[r].storedFiles) > 0)
          /\ Len(reqs'[r].storedFiles) = 0 => conns' = conns
    ]_vars

\* ------------------------------------------------- helpers of the listing
\* the entries readdir returned that are regular files with a safe name
Listable == { e \in home.entries : e.isFile /\ isSafeFilename(e.name) }

C13_ListFailureGivesEmptyPage ==
  /\ home.pc \in {"idle", "readdir", "stat", "done"}
  /\ (home.pc = "done" /\ home.failed # "") =>
       /\ home.list = <<>>
       /\ home.status = 200
       /\ home.page.items = <<>> /\ home.page.empty

\* a stat failed although the directory held files to list
C13_Witness ==
  /\ home.pc = "done" /\ home.failed = "stat"
  /\ Len(home.files) >= 2
  /\ home.page.empty

\* ----------------------------------------------- helpers of the responses
\* h carries every permissive cross-origin header
HasCors(h) ==
  \A n \in DOMAIN CORS_HEADERS : n \in DOMAIN h /\ h[n] = CORS_HEADERS[n]

\* the responses sent so far, as (status, headers), on every route
Responses ==
  { <<reqs[r].status, reqs[r].headers>> : r \in { q \in Reqs : reqs[q].status # 0 } }
    \cup { <<conns[c].status, conns[c].headers>> :
             c \in { d \in Conns : conns[d].status # 0 } }
    \cup { <<x.status, x.headers>> :
             x \in { y \in {getResp, home, plainResp} : y.status # 0 } }

\* --------------------------------------------------------------------- C14
\* C14: every response sent, on every route and on every outcome, those of
\* a failed request included, carries the permissive cross-origin headers.
C14_EveryResponseHasCors ==
  \A resp \in Responses : HasCors(resp[2])

\* --------------------------------------------------------------------- C15
\* C15: no error raised while a request is handled escapes fetch: not the
\* rejection of request.formData(), not the one of Bun.write, not the
\* URIError of decodeURIComponent; each is answered by the handler itself.
C15_NoErrorEscapesFetch ==
  /\ \A r \in Reqs : reqs[r].pc # "threw"
  /\ getResp.headers # RuntimeErrorHeaders

\* --------------------------------------------------------------------- C16
\* C16: for every candidate name with a character outside [A-Za-z0-9._-],
\* sanitizeFileName returns a non-empty string of characters of that class
\* only, and the on-disk name made of it passes the safe-name pattern.
C16_SanitizedIsSafe ==
  (/\ probe.fn = "sanitizeFileName"
   /\ probe.input.present
   /\ \E i \in 1..Len(probe.input.str) : probe.input.str[i] \notin SanitizerClass)
    =>
      /\ Len(probe.output) > 0
      /\ \A i \in 1..Len(probe.output) : probe.output[i] \in SanitizerClass
      /\ isSafeFilename(SafeNameOf(now, OriginalNameOf([name |-> probe.input.str])))

\* a name with a slash inside and a blank at its end was sanitized
C16_Witness ==
  /\ probe.fn = "sanitizeFileName"
  /\ probe.input = Some(<<"a", "/", " ">>)
  /\ probe.output = <<"a", "_">>

\* --------------------------------------------------------------------- C17
\* C17: for the absent candidate name, the empty one and every one made of
\* white space only, sanitizeFileName returns "upload.bin".
C17_BlankGivesFallback ==
  (/\ probe.fn = "sanitizeFileName"
   /\ \/ ~probe.input.present
      \/ \A i \in 1..Len(probe.input.str) : probe.input.str[i] \in WhiteSpace)
    => probe.output = FALLBACK

\* a name of two blanks was sanitized
C17_Witness ==
  /\ probe.fn = "sanitizeFileName"
  /\ probe.input = Some(<<" ", " ">>)
  /\ probe.output = FALLBACK

\* --------------------------------------------------------------------- C18
\* C18: the answer to an OPTIONS request, whatever its path, is an empty
\* 204 with the cross-origin headers, and answering it changes nothing
\* else: no subscriber, stream, file, request or broadcast count.
C18_OptionsShortCircuits ==
  /\ [](plainResp.method = "OPTIONS" =>
          /\ plainResp.status = 204
          /\ plainResp.text = ""
          /\ HasCors(plainResp.headers))
  /\ [][ (plainResp' # plainResp /\ plainResp'.method = "OPTIONS") =>
           UNCHANGED << now, disk, reqs, conns, subscribers, watching,
                        fsPending, timers, debounceTimer, nBroadcast,
                        nTimerFired, getResp, home, probe >>
       ]_vars

\* OPTIONS /events was answered while a subscriber was listening and a file
\* was stored
C18_Witness ==
  /\ plainResp.method = "OPTIONS"
  /\ plainResp.pathname = EVENTS_PATH
  /\ plainResp.status = 204
  /\ subscribers # {}
  /\ DOMAIN disk # {}

\* --------------------------------------------------------------------- C19
\* the submission has parts and all of them are text fields
TextOnly(parts) ==
  parts # <<>> /\ \A i \in 1..Len(parts) : IsText(parts[i])

\* C19: a submission of text fields only is answered with status 400, ok
\* true, an empty files list, the message that no files were detected and
\* the submitted fields with their values; no step of its handler changes
\* the store directory.
C19_TextOnlySubmission ==
  /\ [](\A r \in Reqs :
          (Answered(r) /\ TextOnly(reqs[r].formData)) =>
            LET body == reqs[r].responseBody IN
            /\ reqs[r].status = 400
            /\ reqs[r].responded
            /\ body.ok = TRUE
            /\ body.files = <<>>
            /\ body.message = "No files detected in upload."
            /\ DOMAIN body.fields = FieldNamesOf(reqs[r].formData)
            /\ \A f \in DOMAIN body.fields :
                 body.fields[f] = ValuesOf(reqs[r].formData, f))
  /\ [][ \A r \in Reqs :
           (reqs'[r] # reqs[r] /\ TextOnly(reqs'[r].formData)) => disk' = disk
       ]_vars

\* --------------------------------------------------------------------- C20
\* C20: in a broadcast during which the push of some subscriber throws,
\* the subscriber set stays as it is, every other registered subscriber
\* has "refresh" appended to its stream, and the stream of a subscriber
\* whose push threw is left as it was.
C20_FailureDoesNotStopBroadcast ==
  [][ (/\ nBroadcast' > nBroadcast
       /\ \E c \in subscribers : PushThrows(conns[c])) =>
        /\ subscribers' = subscribers
        /\ \A d \in subscribers :
             conns'[d].stream =
               IF PushThrows(conns[d]) THEN conns[d].stream
               ELSE Append(conns[d].stream, "refresh")
    ]_vars

\* a subscriber registered first has thrown on every broadcast and is still
\* registered; one registered after it has received a refresh
C20_Witness ==
  \E c, d \in subscribers :
    /\ c < d
    /\ conns[c].broken /\ conns[c].regSeq = 0 /\ Refreshes(c) = 0
    /\ nBroadcast >= 1
    /\ ~PushThrows(conns[d]) /\ Refreshes(d) >= 1

\* --------------------------------------------------------------------- C21
\* C21 as stated: a change made before a subscriber connected never puts a
\* "refresh" on its stream: a stream that started when the uploaded file
\* was already in the directory holds "connected" only.
C21_EarlierChangeNeverRefreshes ==
  \A c \in Conns :
    (/\ conns[c].state = "open"
     /\ conns[c].regEntries >= 1
     /\ conns[c].regEntries = Cardinality(DOMAIN disk))
      => conns[c].stream = <<"connected">>

\* C21 as amended: a stream holds at most one "refresh" per broadcast made
\* since it started, none for a broadcast made before; a "refresh" is put on
\* a stream only by a broadcast, and only while its subscriber is in the
\* set. The broadcast of a change may come after the change (the debounce
\* expiry, the end of the handler) and then reaches who connected between.
C21_RefreshOnlyForLaterBroadcasts ==
  /\ [](\A c \in Conns : Refreshes(c) <= nBroadcast - conns[c].regSeq)
  /\ [][ \A c \in Conns :
           (conns[c].state = "open" /\ conns'[c].stream # conns[c].stream) =>
             /\ nBroadcast' = nBroadcast + 1
             /\ c \in subscribers
             /\ conns'[c].stream = Append(conns[c].stream, "refresh")
       ]_vars

\* one stream started before the upload and was told of it by the handler
\* and by the watcher, another started after the handler's broadcast and
\* was told by the watcher only
C21_Witness ==
  \E c, d \in Conns :
    /\ conns[c].state = "open" /\ conns[c].regSeq = 0 /\ Refreshes(c) = 2
    /\ conns[d].state = "open" /\ conns[d].regSeq = 1
    /\ conns[d].regEntries = 1 /\ Refreshes(d) = 1
    /\ nBroadcast = 2

\* --------------------------------------------------------------------- C22
\* C22: in every result of POST /upload, fields maps each text field name of
\* the submission to all its values in submission order, and files lists
\* the file parts of the submission in submission order, each with its
\* field name, the name generated for it, its client name and its size.
C22_FieldsAndFilesInOrder ==
  \A r \in Reqs :
    reqs[r].responded =>
      LET parts == reqs[r].formData
          body == reqs[r].responseBody
          sent == FilePartsOf(parts)
      IN /\ DOMAIN body.fields = FieldNamesOf(parts)
         /\ \A f \in FieldNamesOf(parts) : body.fields[f] = ValuesOf(parts, f)
         /\ Len(body.files) = Len(sent)
         /\ \A k \in 1..Len(sent) :
              /\ body.files[k].field = sent[k].field
              /\ body.files[k].originalName = OriginalNameOf(sent[k])
              /\ body.files[k].size = Len(sent[k].bytes)
              /\ body.files[k].savedAs =
                   SafeNameOf(reqs[r].stamps[k], OriginalNameOf(sent[k]))

\* one result holds two values of one field, in the order sent; another
\* holds two files of one client name, the smaller one sent first
C22_Witness ==
  \E r, q \in Reqs :
    /\ reqs[r].responded
    /\ reqs[r].responseBody.fields = [f \in {"note"} |-> <<"hi", "yo">>]
    /\ reqs[q].responded
    /\ Len(reqs[q].responseBody.files) = 2
    /\ reqs[q].responseBody.files[1].size = Len(Abc)
    /\ reqs[q].responseBody.files[2].size = Len(Hello)

\* --------------------------------------------------------------------- C23
\* C23: no subscriber in the set belongs to a stream that was closed,
\* aborted or cancelled; every abort and every cancel, the first and the
\* second on a connection alike, leaves the set without that subscriber
\* and with every other subscriber it held; and the stream of a connection
\* that was aborted or cancelled is never pushed to again.
C23_RemovedBeforeClosedAndForGood ==
  /\ [](\A c \in subscribers :
          ~conns[c].closed /\ ~conns[c].aborted /\ ~conns[c].cancelled)
  /\ [][ \A c \in Conns :
           (conns'[c].aborted # conns[c].aborted
              \/ conns'[c].cancelled # conns[c].cancelled) =>
             subscribers' = subscribers \ {c} ]_vars
  /\ [][ \A c \in Conns :
           (conns[c].aborted \/ conns[c].cancelled) =>
             conns'[c].stream = conns[c].stream ]_vars

\* a connection was both aborted and cancelled; another one, registered
\* like it before the first broadcast, is still subscribed and has since
\* been sent a refresh that the first one was not sent
C23_Witness ==
  \E c, d \in Conns :
    /\ conns[c].aborted /\ conns[c].cancelled /\ conns[c].closed
    /\ conns[c].regSeq = 0 /\ conns[d].regSeq = 0
    /\ d \in subscribers
    /\ Refreshes(d) > Refreshes(c)

\* --------------------------------------------------------------------- C24
\* C24: on each upload screen at most one uploadAsset call is in flight,
\* and while one is in flight the upload button is disabled.
C24_SingleUploadInFlight ==
  \A s \in Screens :
    /\ screens[s].inFlight <= 1
    /\ screens[s].inFlight > 0 => UploadDisabled(screens[s])

\* --------------------------------------------------------------------- C25
\* the handler of request r threw because a Bun.write rejected
WriteFailed(r) == reqs[r].pc = "threw" /\ reqs[r].error = "write"

\* C25: when the write of a file part fails, the handler has returned no
\* result and built no result body, the parts it stored before are all on
\* disk, the failing step neither writes nor broadcasts, and from then on
\* the handler takes no step: every later change of the directory is the
\* write of a handler that is still running.
C25_WriteFailureStopsHandler ==
  /\ [](\A r \in Reqs :
          WriteFailed(r) =>
            /\ ~reqs[r].responded
            /\ reqs[r].responseBody = <<>>
            /\ reqs[r].status = 500
            /\ Len(reqs[r].storedFiles) < Len(FilePartsOf(reqs[r].formData))
            /\ \A k \in 1..Len(reqs[r].storedFiles) :
                 reqs[r].storedFiles[k].savedAs \in DOMAIN disk)
  /\ [][ \A r \in Reqs :
           (~WriteFailed(r) /\ WriteFailed(r)') =>
             /\ disk' = disk
             /\ nBroadcast' = nBroadcast
             /\ conns' = conns
             /\ reqs'[r].storedFiles = reqs[r].storedFiles ]_vars
  /\ [][ \A r \in Reqs : WriteFailed(r) => reqs'[r] = reqs[r] ]_vars
  /\ [][ disk' # disk =>
           \E r \in Reqs : reqs[r].pc = "writing" /\ reqs'[r] # reqs[r] ]_vars

\* one handler failed on its second file part, the first being on disk;
\* another failed on the first of its two file parts and wrote neither
C25_Witness ==
  \E r, q \in Reqs :
    /\ WriteFailed(r) /\ Len(reqs[r].storedFiles) = 1
    /\ reqs[r].storedFiles[1].savedAs \in DOMAIN disk
    /\ WriteFailed(q) /\ reqs[q].storedFiles = <<>>
    /\ Len(FilePartsOf(reqs[q].formData)) = 2

====
